---- MODULE Spec2Model ----
(***************************************************************************)
(* AMF3 codec of goamf: the Encoder (src/encoder.go) and the Decoder       *)
(* (src/unnamed/part_000).  Bytes are naturals 0..255, strings are         *)
(* sequences of bytes, a uint32 is a pair of 16-bit halves [hi, lo] so     *)
(* that values above 2^31 keep their width.                                *)
(***************************************************************************)
EXTENDS Integers, Sequences, FiniteSets, TLC

VARIABLES
    arg,            \* the value handed to the current (or last) write, Encode or Feed
    pc,             \* position of the caller; in SpecStr, whether the string was cached
    ret,            \* result of the last read or Decode
    writer,         \* bytes the current Encode call has written to e.writer
    enc,            \* Encoder: [sc, oc, reservStruct] (stringCache, objectCache)
    estack,         \* Encoder: the pending part of the running encode recursion
    estate,         \* Encoder: "idle", "busy", or how the last call ended
    elog,           \* trace of the composite literals and references written
    dec,            \* Decoder: [sc, oc, objs, in, log]; in is what d.reader holds
    dstate,         \* Decoder: "idle" or how the last Decode ended
    ncalls,         \* number of Encode, Feed and Reset calls made
    lastOp,         \* name of the operation that made the last step
    paired          \* the Decoder has been fed exactly what the Encoder wrote
                    \* since both were last fresh, and no call returned an error

vars == <<arg, pc, ret, writer, enc, estack, estate, elog, dec, dstate, ncalls,
          lastOp, paired>>

(***************************************************************************)
(* Marker table (external to the two source files; AMF3 values).           *)
(***************************************************************************)
NULL_MARKER == 1
FALSE_MARKER == 2
TRUE_MARKER == 3
INTEGER_MARKER == 4
DOUBLE_MARKER == 5
STRING_MARKER == 6
ARRAY_MARKER == 9
OBJECT_MARKER == 10

(***************************************************************************)
(* Fixed-width arithmetic.                                                 *)
(***************************************************************************)
Pow2(n) == 2 ^ n

\* byte(x): the low 8 bits
Byte(x) == x % 256

\* byte(x | 0x80)
ByteOr80(x) == IF Byte(x) >= 128 THEN Byte(x) ELSE Byte(x) + 128

\* x >> n on a non-negative value
Shr(x, n) == x \div Pow2(n)

\* uint32(x) of an integer x in the int32 range, as 16-bit halves
Uint32(x) == [hi |-> (x \div 65536) % 65536, lo |-> x % 65536]

\* v < c for a uint32 v and a constant 0 <= c < 2^31
U32Lt(v, c) == \/ v.hi < c \div 65536
               \/ v.hi = c \div 65536 /\ v.lo < c % 65536

\* the number a uint32 below 2^31 stands for
U32Val(v) == v.hi * 65536 + v.lo

(***************************************************************************)
(* Encoder.writeU29: result [err, bytes].                                  *)
(***************************************************************************)
WOk(bs) == [err |-> "", bytes |-> bs]
WErr(e, bs) == [err |-> e, bytes |-> bs]

writeU29(v) ==
    LET n == U32Val(v) IN
    IF U32Lt(v, 128) THEN WOk(<<Byte(n)>>)
    ELSE IF U32Lt(v, 16384) THEN
        WOk(<<ByteOr80(Shr(n, 7)), n % 128>>)
    ELSE IF U32Lt(v, 2097152) THEN
        WOk(<<ByteOr80(Shr(n, 14)), ByteOr80(Shr(n, 7)), n % 128>>)
    ELSE IF U32Lt(v, 536870912) THEN
        WOk(<<ByteOr80(Shr(n, 22)), ByteOr80(Shr(n, 15)),
              ByteOr80(Shr(n, 7)), n % 256>>)
    ELSE WErr("u29 overflow", <<>>)

(***************************************************************************)
(* Decoder.readBytes / readMarker / readU29 over the remaining input.      *)
(* Result [err, val, rest]; a short read is the reader's error (io.EOF).   *)
(***************************************************************************)
readBytes(in, n) ==
    IF Len(in) < n THEN [err |-> "EOF", val |-> <<>>, rest |-> in]
    ELSE [err |-> "", val |-> SubSeq(in, 1, n), rest |-> SubSeq(in, n + 1, Len(in))]

readMarker(in) ==
    LET r == readBytes(in, 1) IN
    IF r.err # "" THEN [err |-> r.err, val |-> 0, rest |-> r.rest]
    ELSE [err |-> "", val |-> r.val[1], rest |-> r.rest]

RECURSIVE readU29Loop(_, _, _)
readU29Loop(in, i, acc) ==
    IF i = 4 THEN [err |-> "", val |-> acc, rest |-> in]
    ELSE LET b == readMarker(in) IN
         IF b.err # "" THEN [err |-> b.err, val |-> 0, rest |-> b.rest]
         ELSE IF i # 3 THEN
              LET r == acc * 128 + (b.val % 128) IN
              IF b.val < 128 THEN [err |-> "", val |-> r, rest |-> b.rest]
              ELSE readU29Loop(b.rest, i + 1, r)
         ELSE readU29Loop(b.rest, i + 1, acc * 256 + b.val)

readU29(in) == readU29Loop(in, 0, 0)

(***************************************************************************)
(* Numeric conversions of the Go runtime used by the codec.                *)
(* A float64 is its IEEE-754 bit pattern as 8 big-endian bytes.            *)
(***************************************************************************)
Abs(x) == IF x < 0 THEN 0 - x ELSE x

RECURSIVE Log2(_)
Log2(n) == IF n <= 1 THEN 0 ELSE 1 + Log2(n \div 2)

\* the w low bits of n, most significant first
BitsOf(n, w) == [i \in 1..w |-> (n \div Pow2(w - i)) % 2]

RECURSIVE BitsVal(_)
BitsVal(bs) == IF bs = <<>> THEN 0
               ELSE 2 * BitsVal(SubSeq(bs, 1, Len(bs) - 1)) + bs[Len(bs)]

\* math.Float64bits(float64(v)) for an integer |v| < 2^31 (exact)
Float64OfInt(v) ==
    IF v = 0 THEN [i \in 1..8 |-> 0]
    ELSE LET a == Abs(v)
             e == Log2(a)
             bits == <<IF v < 0 THEN 1 ELSE 0>> \o BitsOf(1023 + e, 11)
                     \o BitsOf(a - Pow2(e), e) \o [i \in 1..(52 - e) |-> 0]
         IN [i \in 1..8 |-> BitsVal(SubSeq(bits, 8 * i - 7, 8 * i))]

RECURSIVE BytesToBits(_)
BytesToBits(bs) == IF bs = <<>> THEN <<>>
                   ELSE BitsOf(bs[1], 8) \o BytesToBits(Tail(bs))

\* the unbiased exponent of a float64
Float64Exp(b) == BitsVal(SubSeq(BytesToBits(b), 2, 12)) - 1023

\* int64(math.Float64frombits(b)), truncation toward zero, for a magnitude
\* below 2^31
Int64OfFloat64(b) ==
    LET bits == BytesToBits(b)
        ex == Float64Exp(b)
    IN IF ex < 0 THEN 0
       ELSE LET m == Pow2(ex) + BitsVal(SubSeq(bits, 13, 12 + ex))
            IN IF bits[1] = 1 THEN 0 - m ELSE m

RECURSIVE Digits(_)
Digits(n) == IF n < 10 THEN <<48 + n>> ELSE Digits(n \div 10) \o <<48 + (n % 10)>>

\* strconv.FormatInt(v, 10) / strconv.FormatUint(v, 10)
FormatInt(v) == IF v < 0 THEN <<45>> \o Digits(0 - v) ELSE Digits(v)

IsDigits(s) == s # <<>> /\ \A i \in 1..Len(s) : s[i] \in 48..57

RECURSIVE DigitsVal(_)
DigitsVal(s) == IF s = <<>> THEN 0
                ELSE 10 * DigitsVal(SubSeq(s, 1, Len(s) - 1)) + (s[Len(s)] - 48)

\* strconv.ParseInt(s, 10, 64), for strings of at most 10 digits
ParseInt(s) ==
    LET neg == s # <<>> /\ s[1] = 45
        body == IF s # <<>> /\ s[1] \in {43, 45} THEN Tail(s) ELSE s
    IN IF ~IsDigits(body) \/ Len(body) > 10 THEN [err |-> "invalid syntax", val |-> 0]
       ELSE [err |-> "", val |-> IF neg THEN 0 - DigitsVal(body) ELSE DigitsVal(body)]

\* strconv.ParseUint(s, 10, 64)
ParseUint(s) ==
    IF ~IsDigits(s) \/ Len(s) > 10 THEN [err |-> "invalid syntax", val |-> 0]
    ELSE [err |-> "", val |-> DigitsVal(s)]

(***************************************************************************)
(* Encoder: primitive encoders.  sc is e.stringCache (string -> index).    *)
(* Result [err, bytes, sc].                                                *)
(***************************************************************************)
EOk(bs, sc) == [err |-> "", bytes |-> bs, sc |-> sc]
EErr(e, bs, sc) == [err |-> e, bytes |-> bs, sc |-> sc]

CacheLen(c) == Cardinality(DOMAIN c)

\* writeString without the cache lookup: every occurrence is a literal
writeString_NoRef(sc, s) ==
    LET w == writeU29(Uint32(Len(s) * 2 + 1)) IN
    IF w.err # "" THEN EErr(w.err, w.bytes, sc)
    ELSE EOk(w.bytes \o s,
             IF s # <<>> /\ s \notin DOMAIN sc THEN (s :> CacheLen(sc)) @@ sc
             ELSE sc)

\* writeString without the test for the empty string: it is cached as well
writeString_CacheEmpty(sc, s) ==
    IF s \in DOMAIN sc THEN
        LET w == writeU29(Uint32(sc[s] * 2)) IN EErr(w.err, w.bytes, sc)
    ELSE LET w == writeU29(Uint32(Len(s) * 2 + 1)) IN
         IF w.err # "" THEN EErr(w.err, w.bytes, sc)
         ELSE EOk(w.bytes \o s, (s :> CacheLen(sc)) @@ sc)

\* Encoder.writeString
writeString(sc, s) ==
    IF s \in DOMAIN sc THEN
        LET w == writeU29(Uint32(sc[s] * 2)) IN EErr(w.err, w.bytes, sc)
    ELSE LET w == writeU29(Uint32(Len(s) * 2 + 1)) IN
         IF w.err # "" THEN EErr(w.err, w.bytes, sc)
         ELSE EOk(w.bytes \o s,
                  IF s # <<>> THEN (s :> CacheLen(sc)) @@ sc ELSE sc)

encodeBool(sc, v) == EOk(<<IF v THEN TRUE_MARKER ELSE FALSE_MARKER>>, sc)

encodeNull(sc) == EOk(<<NULL_MARKER>>, sc)

encodeFloat(sc, bits) == EOk(<<DOUBLE_MARKER>> \o bits, sc)

encodeString(sc, s) ==
    LET w == writeString(sc, s) IN
    [err |-> w.err, bytes |-> <<STRING_MARKER>> \o w.bytes, sc |-> w.sc]

\* (a v above 0xffffffff, written as a decimal string, is beyond the
\* integers of this model: every v here takes the Double branch)
encodeUint(sc, v) ==
    IF v >= 536870912 THEN encodeFloat(sc, Float64OfInt(v))
    ELSE LET w == writeU29(Uint32(v)) IN
         EErr(w.err, <<INTEGER_MARKER>> \o w.bytes, sc)

encodeInt(sc, v) ==
    IF v < -268435455 THEN
        IF v > -2147483647 THEN encodeFloat(sc, Float64OfInt(v))
        ELSE encodeString(sc, FormatInt(v))
    ELSE LET w == writeU29(Uint32(v)) IN
         EErr(w.err, <<INTEGER_MARKER>> \o w.bytes, sc)

(***************************************************************************)
(* Decoder.  A destination is a reflect.Value: [type, cur, addr] with the  *)
(* static type, the value it holds and whether it is addressable.  Values: *)
(* [t |-> "nil"], scalars [t, v], [t |-> "ptr", elem] and [t |-> "obj",    *)
(* id] for a slice, map or struct stored at objs[id + 1].                  *)
(* Decoder state ds = [sc, oc, objs, in, log]: stringCache, objectCache,   *)
(* the composites allocated so far, the unread input and the trace of      *)
(* composite literals and back-references met.                             *)
(***************************************************************************)
TAny == [k |-> "interface"]
TBool == [k |-> "bool"]
TInt == [k |-> "int"]
TUint == [k |-> "uint"]
TFloat == [k |-> "float"]
TString == [k |-> "string"]
TSlice == [k |-> "slice"]       \* []AMFAny
TMap == [k |-> "map"]           \* map[string]AMFAny
TStruct == [k |-> "struct"]     \* struct { A AMFAny; N int64 `amf.name:"num"` }
TPtr(t) == [k |-> "ptr", e |-> t]

Nil == [t |-> "nil"]
VBool(b) == [t |-> "bool", b |-> b]
VInt(n) == [t |-> "int", n |-> n]
VUint(n) == [t |-> "uint", n |-> n]
VUint32(n) == [t |-> "uint32", n |-> n]
VFloat(b) == [t |-> "float", bits |-> b]
VString(s) == [t |-> "string", str |-> s]
VWide(ty) == [t |-> ty, wide |-> TRUE]   \* an integer of 2^31 or more, NaN, Inf
VObj(id) == [t |-> "obj", id |-> id]
VPtr(e) == [t |-> "ptr", elem |-> e]

StructFields == <<[name |-> <<65>>, tag |-> <<>>, type |-> TAny],
                  [name |-> <<78>>, tag |-> <<110, 117, 109>>, type |-> TInt]>>

\* reflect.Zero / the zero value a fresh location holds (a struct is
\* allocated by NewStruct)
Zero(ty) == CASE ty.k = "bool" -> VBool(FALSE)
              [] ty.k = "int" -> VInt(0)
              [] ty.k = "uint" -> VUint(0)
              [] ty.k = "float" -> VFloat([i \in 1..8 |-> 0])
              [] ty.k = "string" -> VString(<<>>)
              [] OTHER -> Nil

Dest(ty, cur, addr) == [type |-> ty, cur |-> cur, addr |-> addr]

\* kinds on which reflect.Value.IsNil does not panic
Nilable(k) == k \in {"interface", "slice", "map", "ptr"}

D(st, ds, val) == [st |-> st, ds |-> ds, val |-> val]

Consume(ds, rest) == [ds EXCEPT !.in = rest]

NewStruct == [kind |-> "struct",
              f |-> [i \in 1..Len(StructFields) |-> Zero(StructFields[i].type)]]

\* Decoder.getField: index of the field a key names, 0 when there is none
IsLower(c) == c \in 97..122
IsUpper(c) == c \in 65..90

getField(key) ==
    LET upperKey == IF key # <<>> /\ IsLower(key[1])
                    THEN <<key[1] - 32>> \o Tail(key) ELSE key
        hits == {i \in 1..Len(StructFields) :
                   StructFields[i].name = upperKey \/ StructFields[i].tag = key}
    IN IF hits = {} THEN 0 ELSE CHOOSE i \in hits : \A j \in hits : i <= j

\* Decoder.setBool
setBool(ds, value, v) ==
    CASE value.type.k = "bool" -> D("ok", ds, VBool(v))
      [] value.type.k = "interface" -> D("ok", ds, VBool(v))
      [] OTHER -> D("err", ds, value.cur)

\* Decoder.readFloat
readFloat(ds, value) ==
    LET r == readBytes(ds.in, 8)
        ds1 == Consume(ds, r.rest)
        k == value.type.k
    IN IF r.err # "" THEN D("err", ds1, value.cur)
       ELSE CASE k = "float" -> D("ok", ds1, VFloat(r.val))
              [] k = "int" -> D("ok", ds1, IF Float64Exp(r.val) > 30 THEN VWide("int")
                                           ELSE VInt(Int64OfFloat64(r.val)))
              [] k = "uint" -> D("ok", ds1, IF Float64Exp(r.val) > 30 THEN VWide("uint")
                                            ELSE VUint(Int64OfFloat64(r.val)))
              [] k = "interface" -> D("ok", ds1, VFloat(r.val))
              [] OTHER -> D("err", ds1, value.cur)

\* Decoder.readInteger
readInteger(ds, value) ==
    LET r == readU29(ds.in)
        ds1 == Consume(ds, r.rest)
        uv == r.val
        vv == IF uv > 268435455 THEN uv - 536870912 ELSE uv
        k == value.type.k
    IN IF r.err # "" THEN D("err", ds1, value.cur)
       ELSE CASE k = "int" -> D("ok", ds1, VInt(vv))
              [] k = "uint" -> D("ok", ds1, VUint(uv))
              [] k = "interface" -> D("ok", ds1, VUint32(uv))
              [] OTHER -> D("err", ds1, value.cur)

\* the kind switch that ends Decoder.readString
StoreString(ds, value, s) ==
    LET k == value.type.k IN
    CASE k = "int" -> LET n == ParseInt(s) IN
                      IF n.err # "" THEN D("err", ds, value.cur)
                      ELSE D("ok", ds, VInt(n.val))
      [] k = "uint" -> LET n == ParseUint(s) IN
                       IF n.err # "" THEN D("err", ds, value.cur)
                       ELSE D("ok", ds, VUint(n.val))
      [] k = "string" -> D("ok", ds, VString(s))
      [] k = "interface" -> D("ok", ds, VString(s))
      [] OTHER -> D("err", ds, value.cur)

\* Decoder.readString
readString(ds, value) ==
    LET r == readU29(ds.in)
        ds1 == Consume(ds, r.rest)
    IN IF r.err # "" THEN D("err", ds1, value.cur)
       ELSE IF r.val % 2 = 0 THEN
            IF r.val \div 2 >= Len(ds1.sc)
            THEN D("panic", [ds1 EXCEPT !.log = Append(@, <<"oor", r.val \div 2>>)],
                   value.cur)
            ELSE StoreString(ds1, value, ds1.sc[r.val \div 2 + 1])
       ELSE LET b == readBytes(ds1.in, r.val \div 2)
                ds2 == Consume(ds1, b.rest)
            IN IF b.err # "" THEN D("err", ds2, value.cur)
               ELSE StoreString(
                      IF b.val # <<>> THEN [ds2 EXCEPT !.sc = Append(@, b.val)]
                      ELSE ds2,
                      value, b.val)

(***************************************************************************)
(* Decoder: composites.  par is the cache index of the enclosing           *)
(* composite literal (-1 at top level), kept for the trace only.  The      *)
(* trace holds <<"lit", idx, par>> for a literal registered at idx,        *)
(* <<"ref", idx>> for a back-reference resolved to entry idx and           *)
(* <<"oor", idx>> for a back-reference to an index the cache lacks: Go's   *)
(* index expression panics there.                                          *)
(***************************************************************************)
ObjKind(ds, v) == IF v.t = "obj" THEN ds.objs[v.id + 1].kind ELSE v.t

\* whether reflect.Value.Set(entry) on a destination of type ty succeeds:
\* the destination must be settable and the entry assignable to its type
CanSet(ds, value, entry) ==
    /\ value.addr
    /\ \/ value.type.k = "interface"
       \/ value.type.k = ObjKind(ds, entry)

Register(ds, v, par) ==
    [ds EXCEPT !.oc = Append(@, v),
               !.log = Append(@, <<"lit", Len(ds.oc), par>>)]

\* value.Set(d.objectCache[int(index>>1)]) of readObject and readSlice
ResolveRef(ds, value, index) ==
    IF index \div 2 >= Len(ds.oc)
    THEN D("panic", [ds EXCEPT !.log = Append(@, <<"oor", index \div 2>>)], value.cur)
    ELSE LET entry == ds.oc[index \div 2 + 1] IN
         IF ~CanSet(ds, value, entry) THEN D("panic", ds, value.cur)
         ELSE D("ok", [ds EXCEPT !.log = Append(@, <<"ref", index \div 2>>)], entry)

StringDest == Dest(TString, VString(<<>>), TRUE)

RECURSIVE decode(_, _, _)
RECURSIVE decodeAt(_, _, _, _)
RECURSIVE readObject(_, _, _)
RECURSIVE readSlice(_, _, _)
RECURSIVE mapLoop(_, _, _)
RECURSIVE structLoop(_, _, _, _)
RECURSIVE sliceLoop(_, _, _, _, _)
RECURSIVE mapKey(_, _, _)
RECURSIVE mapElem(_, _, _, _)
RECURSIVE structKey(_, _, _, _)
RECURSIVE structElem(_, _, _, _, _)
RECURSIVE sliceElem(_, _, _, _, _)

mapElem(k, r, id, idx) ==
    IF r.st # "ok" THEN D(r.st, r.ds, VObj(id))
    ELSE mapLoop([r.ds EXCEPT !.objs[id + 1].m = (k :> r.val.elem) @@ @], id, idx)

mapKey(k, id, idx) ==
    IF k.st # "ok" THEN D(k.st, k.ds, VObj(id))
    ELSE IF k.val.str = <<>> THEN D("ok", k.ds, VObj(id))
    ELSE mapElem(k.val.str,
                 decode(k.ds, Dest(TPtr(TAny), VPtr(Nil), FALSE), idx), id, idx)

\* the key/value loop of readObject on a map target
mapLoop(ds, id, idx) == mapKey(readString(ds, StringDest), id, idx)

structElem(fi, r, id, idx, addr) ==
    IF r.st # "ok"
    THEN D(r.st, [r.ds EXCEPT !.objs[id + 1].f[fi] = r.val], VObj(id))
    ELSE structLoop([r.ds EXCEPT !.objs[id + 1].f[fi] = r.val], id, idx, addr)

structKey(k, id, idx, addr) ==
    IF k.st # "ok" THEN D(k.st, k.ds, VObj(id))
    ELSE IF k.val.str = <<>> THEN D("ok", k.ds, VObj(id))
    ELSE IF getField(k.val.str) = 0 THEN D("err", k.ds, VObj(id))
    ELSE structElem(getField(k.val.str),
                    decode(k.ds, Dest(StructFields[getField(k.val.str)].type,
                                      k.ds.objs[id + 1].f[getField(k.val.str)],
                                      addr), idx),
                    id, idx, addr)

\* the key/value loop of readObject on a struct target
structLoop(ds, id, idx, addr) ==
    structKey(readString(ds, StringDest), id, idx, addr)

\* Decoder.readObject
readObject(ds, value, par) ==
    LET r == readU29(ds.in)
        ds1 == Consume(ds, r.rest)
    IN
    IF r.err # "" THEN D("err", ds1, value.cur)
    ELSE IF r.val % 2 = 0 THEN ResolveRef(ds1, value, r.val)
    ELSE IF r.val # 11 THEN D("err", ds1, value.cur)
    ELSE
    LET sep == readMarker(ds1.in)
        ds2 == Consume(ds1, sep.rest)
        k == value.type.k
        fresh == k = "interface" \/ (k = "map" /\ value.cur = Nil)
        id == IF fresh THEN Len(ds2.objs) ELSE value.cur.id
        ds3 == IF fresh
               THEN [ds2 EXCEPT !.objs = Append(@, [kind |-> "map", m |-> <<>>])]
               ELSE ds2
    IN
    IF sep.err # "" THEN D("err", ds2, value.cur)
    ELSE IF sep.val # 1 THEN D("err", ds2, value.cur)
    ELSE IF k \in {"interface", "map"} THEN
         IF fresh /\ ~value.addr THEN D("panic", ds2, value.cur)
         ELSE mapLoop(Register(ds3, VObj(id), par), id, Len(ds3.oc))
    ELSE IF k # "struct" THEN D("err", ds2, value.cur)
    ELSE structLoop(Register(ds2, value.cur, par), value.cur.id,
                    Len(ds2.oc), value.addr)

sliceElem(r, id, idx, i, n) ==
    IF r.st # "ok"
    THEN D(r.st, [r.ds EXCEPT !.objs[id + 1].elems[i] = r.val], VObj(id))
    ELSE sliceLoop([r.ds EXCEPT !.objs[id + 1].elems[i] = r.val], id, idx, i + 1, n)

\* the element loop of readSlice
sliceLoop(ds, id, idx, i, n) ==
    IF i > n THEN D("ok", ds, VObj(id))
    ELSE sliceElem(decode(ds, Dest(TAny, ds.objs[id + 1].elems[i], TRUE), idx),
                   id, idx, i, n)

\* Decoder.readSlice
readSlice(ds, value, par) ==
    LET r == readU29(ds.in)
        ds1 == Consume(ds, r.rest)
    IN
    IF r.err # "" THEN D("err", ds1, value.cur)
    ELSE IF r.val % 2 = 0 THEN ResolveRef(ds1, value, r.val)
    ELSE
    LET n == r.val \div 2
        sep == readMarker(ds1.in)
        ds2 == Consume(ds1, sep.rest)
        k == value.type.k
        id == Len(ds2.objs)
        ds3 == [ds2 EXCEPT !.objs =
                   Append(@, [kind |-> "slice", elems |-> [i \in 1..n |-> Nil]])]
    IN
    IF sep.err # "" THEN D("err", ds2, value.cur)
    ELSE IF sep.val # 1 THEN D("err", ds2, value.cur)
    ELSE IF ~Nilable(k) THEN D("panic", ds2, value.cur)      \* value.IsNil()
    ELSE IF value.cur = Nil THEN
         IF k \notin {"slice", "interface"} THEN D("err", ds2, value.cur)
         ELSE IF ~value.addr THEN D("panic", ds2, value.cur)
         ELSE sliceLoop(Register(ds3, VObj(id), par), id, Len(ds3.oc), 1, n)
    ELSE \* a destination that already holds a value is registered as it is
         LET ds4 == Register(ds2, value.cur, par) IN
         IF n = 0 THEN D("ok", ds4, value.cur)
         ELSE IF k = "slice" /\ Len(ds4.objs[value.cur.id + 1].elems) >= n
         THEN sliceLoop(ds4, value.cur.id, Len(ds2.oc), 1, n)
         ELSE D("panic", ds4, value.cur)                     \* value.Index(i)

\* the pointer unwrapping and the marker dispatch of Decoder.decode
decodeAt(ds, value, marker, par) ==
    IF value.type.k = "ptr" THEN
        IF value.cur = Nil /\ ~value.addr THEN D("panic", ds, value.cur)
        ELSE LET alloc == value.cur = Nil /\ value.type.e.k = "struct"
                 ds1 == IF alloc THEN [ds EXCEPT !.objs = Append(@, NewStruct)]
                        ELSE ds
                 cur == IF value.cur # Nil THEN value.cur.elem
                        ELSE IF alloc THEN VObj(Len(ds.objs))
                        ELSE Zero(value.type.e)
                 r == decodeAt(ds1, Dest(value.type.e, cur, TRUE), marker, par)
             IN D(r.st, r.ds, VPtr(r.val))
    ELSE CASE marker = FALSE_MARKER -> setBool(ds, value, FALSE)
           [] marker = TRUE_MARKER -> setBool(ds, value, TRUE)
           [] marker = STRING_MARKER -> readString(ds, value)
           [] marker = DOUBLE_MARKER -> readFloat(ds, value)
           [] marker = INTEGER_MARKER -> readInteger(ds, value)
           [] marker = ARRAY_MARKER -> readSlice(ds, value, par)
           [] marker = OBJECT_MARKER -> readObject(ds, value, par)
           [] OTHER -> D("err", ds, value.cur)

\* Decoder.decode
decode(ds, value, par) ==
    LET m == readMarker(ds.in)
        ds1 == Consume(ds, m.rest)
    IN
    IF m.err # "" THEN D("err", ds1, value.cur)
    ELSE IF m.val = NULL_MARKER THEN
         IF ~Nilable(value.type.k) THEN D("panic", ds1, value.cur)  \* IsNil
         ELSE IF value.cur = Nil THEN D("ok", ds1, value.cur)
         ELSE IF ~value.addr THEN D("panic", ds1, value.cur)        \* Set
         ELSE D("ok", ds1, Nil)
    ELSE decodeAt(ds1, value, m.val, par)

(***************************************************************************)
(* Encoder: values.  A value handed to encode is a reflect.Value:          *)
(* [k |-> kind, ...].  Slices, maps and structs live in the memory Mem of  *)
(* the calling program; addr is what reflect.Value.Pointer returns for a   *)
(* slice (its data pointer), a map (its header) or a pointer to a struct.  *)
(* Go lays the first field of a struct at the struct's own address and     *)
(* element 0 of a slice at the slice's data pointer; a nil slice and a nil *)
(* map have Pointer() = 0.                                                 *)
(***************************************************************************)
EInvalid == [k |-> "invalid"]               \* reflect.ValueOf(nil)
EFunc == [k |-> "func"]
EBool(b) == [k |-> "bool", b |-> b]
EInt(n) == [k |-> "int", n |-> n]
EUint(n) == [k |-> "uint", n |-> n]
EFloat(b) == [k |-> "float", bits |-> b]
EString(str) == [k |-> "string", str |-> str]
EIface(v) == [k |-> "interface", v |-> v]   \* an AMFAny element or member
ESlice(id) == [k |-> "slice", id |-> id]
EMap(id) == [k |-> "map", id |-> id]
EStruct(id) == [k |-> "struct", id |-> id]
EPtr(a, v) == [k |-> "ptr", isnil |-> FALSE, addr |-> a, elem |-> v]
ENilPtr == [k |-> "ptr", isnil |-> TRUE]

MSlice(a, elems) == [kind |-> "slice", addr |-> a, elems |-> elems]
MMap(a, m) == [kind |-> "map", addr |-> a, m |-> m]
MStruct(a, fields) == [kind |-> "struct", addr |-> a, fields |-> fields]
Field(name, tag, v) == [name |-> name, tag |-> tag, val |-> v]

Mem ==
    [S |-> MSlice(100, <<EIface(ESlice("S"))>>),                \* s[0] = s
     M |-> MMap(200, (<<109>> :> EIface(EMap("M")))),           \* m["m"] = m
     R |-> MStruct(300, <<Field(<<65>>, <<>>, ESlice("L")),     \* A, B alias L
                          Field(<<66>>, <<>>, ESlice("L")),
                          Field(<<99>>, <<>>, EInt(7))>>),      \* unexported c
     L |-> MSlice(400, <<EIface(EBool(TRUE))>>),
     Q |-> MSlice(500, <<EIface(EMap("A")), EIface(EMap("B")), EIface(EMap("A"))>>),
     A |-> MMap(600, <<>>),
     B |-> MMap(700, (<<107>> :> EIface(EString(<<118>>)))
                     @@ (<<106>> :> EIface(EBool(TRUE)))),
     O |-> MStruct(800, <<Field(<<73>>, <<>>, EStruct("I")),    \* I is O's first field
                          Field(<<78>>, <<110, 117, 109>>, EInt(1))>>),
     I |-> MStruct(800, <<Field(<<86>>, <<>>, EInt(2))>>),
     T |-> MSlice(900, <<EStruct("E")>>),                       \* []struct, E = T[0]
     E |-> MStruct(900, <<Field(<<86>>, <<>>, EInt(3))>>),
     P1 |-> MSlice(1000, <<EIface(EInt(1))>>),                  \* P2[:1]
     P2 |-> MSlice(1000, <<EIface(EInt(1)), EIface(EInt(2))>>),
     NS |-> MSlice(0, <<>>),                                    \* nil slice
     NM |-> MMap(0, <<>>),                                      \* nil map
     NE |-> MSlice(1200, <<EIface(EInvalid)>>),                 \* []AMFAny{nil}
     UE |-> MSlice(1300, <<EIface(EString(<<97>>)), EIface(EFunc)>>),
     MS |-> MMap(1400, (<<115>> :> EStruct("V"))),              \* map[string]struct
     V |-> MStruct(0, <<Field(<<86>>, <<>>, EInt(4))>>)]

\* addresses reflect.New may return for the copy of a struct-valued map
\* element: the copy dies with the call, so a later copy may reuse it
FreshAddrs == {2000, 2001}

Roots == {ESlice("S"), EMap("M"), EPtr(300, EStruct("R")), ESlice("Q"),
          EPtr(800, EStruct("O")), ESlice("T"), ESlice("P1"), ESlice("P2"),
          ESlice("NS"), EMap("NM"), ESlice("NE"), ESlice("UE"), EMap("MS"),
          EInvalid, ENilPtr, EPtr(1600, EString(<<97>>)), EInt(-1)}

(***************************************************************************)
(* Encoder: one invocation of encode / writeString of the recursion.       *)
(* A frame is a pending invocation: [op |-> "encode", v, par] or           *)
(* [op |-> "wstr", str]; par is the cache index of the enclosing literal.  *)
(* Result [st, bytes, sc, oc, push, ev]: how it ended, the bytes written,  *)
(* the caches, the invocations it makes next (in order) and what it adds   *)
(* to the trace.                                                           *)
(***************************************************************************)
FEncode(v, par) == [op |-> "encode", v |-> v, par |-> par]
FWstr(str) == [op |-> "wstr", str |-> str]

R(st, bs, sc, oc, push, ev) ==
    [st |-> st, bytes |-> bs, sc |-> sc, oc |-> oc, push |-> push, ev |-> ev]

Leaf(w, oc) == R(IF w.err = "" THEN "ok" ELSE "err", w.bytes, w.sc, oc, <<>>, <<>>)

\* unicode.ToLower on the runes used here
ToLower(c) == IF IsUpper(c) THEN c + 32 ELSE c

\* Encoder.getFieldName
getFieldName(f, reservStruct) ==
    IF IsLower(f.name[1]) THEN <<>>
    ELSE IF f.tag # <<>> THEN f.tag
    ELSE IF ~reservStruct THEN <<ToLower(f.name[1])>> \o Tail(f.name)
    ELSE f.name

\* elem.Addr() / fv.Addr() of a struct-kind element or field
AddrOf(v) == IF v.k = "struct" THEN EPtr(Mem[v.id].addr, v) ELSE v

\* the back-reference all three compound encoders write on a cache hit
WriteRef(marker, es, id, ptr) ==
    LET w == writeU29(Uint32(es.oc[ptr] * 4)) IN
    R(IF w.err = "" THEN "ok" ELSE "err", <<marker>> \o w.bytes, es.sc, es.oc,
      <<>>, <<<<"ref", id, es.oc[ptr]>>>>)

RECURSIVE Flatten(_)
Flatten(ss) == IF ss = <<>> THEN <<>> ELSE Head(ss) \o Flatten(Tail(ss))

\* Encoder.encodeMap; ord is the order v.MapKeys() returns, fresh the
\* address of the copy made of a struct-kind element
encodeMap(es, v, par, ord, fresh) ==
    LET ptr == Mem[v.id].addr
        idx == CacheLen(es.oc)
        w == writeString(es.sc, <<>>)
        el(k) == LET x == Mem[v.id].m[k] IN
                 IF x.k = "struct" THEN EPtr(fresh, x) ELSE x
    IN IF ptr \in DOMAIN es.oc THEN WriteRef(OBJECT_MARKER, es, v.id, ptr)
       ELSE R(IF w.err = "" THEN "ok" ELSE "err",
              <<OBJECT_MARKER, 11>> \o w.bytes, w.sc, (ptr :> idx) @@ es.oc,
              Flatten([i \in 1..Len(ord) |->
                         <<FWstr(ord[i]), FEncode(el(ord[i]), idx)>>])
                \o <<FWstr(<<>>)>>,
              <<<<"lit", v.id, idx, par>>>>)

\* Encoder.encodeStruct; v is the pointer to the struct
encodeStruct(es, v, par) ==
    LET ptr == v.addr
        id == v.elem.id
        idx == CacheLen(es.oc)
        w == writeString(es.sc, <<>>)
        fs == Mem[id].fields
        out(f) == IF getFieldName(f, es.reservStruct) = <<>> THEN <<>>
                  ELSE <<FWstr(getFieldName(f, es.reservStruct)),
                         FEncode(AddrOf(f.val), idx)>>
    IN IF ptr \in DOMAIN es.oc THEN WriteRef(OBJECT_MARKER, es, id, ptr)
       ELSE R(IF w.err = "" THEN "ok" ELSE "err",
              <<OBJECT_MARKER, 11>> \o w.bytes, w.sc, (ptr :> idx) @@ es.oc,
              Flatten([i \in 1..Len(fs) |-> out(fs[i])]) \o <<FWstr(<<>>)>>,
              <<<<"lit", id, idx, par>>>>)

\* encodeSlice without the cache lookup: a slice met again is expanded again
encodeSlice_NoLookup(es, v, par) ==
    LET ptr == Mem[v.id].addr
        idx == CacheLen(es.oc)
        els == Mem[v.id].elems
        n == writeU29(Uint32(Len(els) * 2 + 1))
        w == writeString(es.sc, <<>>)
    IN IF n.err # "" THEN
            R("err", <<ARRAY_MARKER>>, es.sc, (ptr :> idx) @@ es.oc, <<>>,
              <<<<"lit", v.id, idx, par>>>>)
       ELSE R(IF w.err = "" THEN "ok" ELSE "err",
              <<ARRAY_MARKER>> \o n.bytes \o w.bytes, w.sc, (ptr :> idx) @@ es.oc,
              [i \in 1..Len(els) |-> FEncode(AddrOf(els[i]), idx)],
              <<<<"lit", v.id, idx, par>>>>)

\* Encoder.encodeSlice
encodeSlice(es, v, par) ==
    LET ptr == Mem[v.id].addr
        idx == CacheLen(es.oc)
        els == Mem[v.id].elems
        n == writeU29(Uint32(Len(els) * 2 + 1))
        w == writeString(es.sc, <<>>)
    IN IF ptr \in DOMAIN es.oc THEN WriteRef(ARRAY_MARKER, es, v.id, ptr)
       ELSE IF n.err # "" THEN
            R("err", <<ARRAY_MARKER>>, es.sc, (ptr :> idx) @@ es.oc, <<>>,
              <<<<"lit", v.id, idx, par>>>>)
       ELSE R(IF w.err = "" THEN "ok" ELSE "err",
              <<ARRAY_MARKER>> \o n.bytes \o w.bytes, w.sc, (ptr :> idx) @@ es.oc,
              [i \in 1..Len(els) |-> FEncode(AddrOf(els[i]), idx)],
              <<<<"lit", v.id, idx, par>>>>)

\* Encoder.encode (the dispatcher).  An Interface value is replaced by
\* reflect.ValueOf(v.Interface()), which is never of kind Interface.
encode(es, v0, par, ord, fresh) ==
    LET v == IF v0.k = "interface" THEN v0.v ELSE v0 IN
    CASE v.k = "map" -> encodeMap(es, v, par, ord, fresh)
      [] v.k = "uint" -> Leaf(encodeUint(es.sc, v.n), es.oc)
      [] v.k = "int" -> Leaf(encodeInt(es.sc, v.n), es.oc)
      [] v.k = "bool" -> Leaf(encodeBool(es.sc, v.b), es.oc)
      [] v.k = "string" -> Leaf(encodeString(es.sc, v.str), es.oc)
      [] v.k = "slice" -> encodeSlice(es, v, par)
      [] v.k = "float" -> Leaf(encodeFloat(es.sc, v.bits), es.oc)
      [] v.k = "ptr" ->
            IF v.isnil THEN Leaf(encodeNull(es.sc), es.oc)
            ELSE IF v.elem.k = "struct" THEN encodeStruct(es, v, par)
            ELSE R("ok", <<>>, es.sc, es.oc, <<FEncode(v.elem, par)>>, <<>>)
      [] v.k = "invalid" -> R("panic", <<>>, es.sc, es.oc, <<>>, <<>>) \* v.Type()
      [] OTHER -> R("err", <<>>, es.sc, es.oc, <<>>, <<>>)

RunFrame(es, f, ord, fresh) ==
    IF f.op = "wstr" THEN Leaf(writeString(es.sc, f.str), es.oc)
    ELSE encode(es, f.v, f.par, ord, fresh)

(***************************************************************************)
(* State of a fresh Encoder / Decoder pair (NewEncoder, NewDecoder).       *)
(***************************************************************************)
DInit == [sc |-> <<>>, oc |-> <<>>, objs |-> <<>>, in |-> <<>>, log |-> <<>>]

session == <<enc, estack, estate, elog, dec, dstate, ncalls, lastOp, paired>>

Idle ==
    /\ enc = [sc |-> <<>>, oc |-> <<>>, reservStruct |-> FALSE]
    /\ estack = <<>>
    /\ estate = "idle"
    /\ elog = <<>>
    /\ dec = DInit
    /\ dstate = "idle"
    /\ ncalls = 0
    /\ lastOp = "new"
    /\ paired = TRUE

(***************************************************************************)
(* Specification SpecU29: writeU29 followed by readU29 on its output.      *)
(***************************************************************************)
MaxBit == 28

U29Boundaries == {0, 127, 128, 16383, 16384, 2097151, 2097152,
                  536870911, 536870912}

U29Inputs == U29Boundaries \cup
             {Pow2(k) + Pow2(j) : k \in 0..MaxBit, j \in 0..MaxBit}

U29Init ==
    /\ arg \in U29Inputs
    /\ pc = "in"
    /\ ret = [err |-> "", val |-> 0, rest |-> <<>>]
    /\ writer = <<>>
    /\ Idle

U29Write ==
    /\ pc = "in"
    /\ LET w == writeU29(Uint32(arg)) IN
       /\ writer' = w.bytes
       /\ pc' = IF w.err = "" THEN "written" ELSE "werr"
    /\ UNCHANGED <<arg, ret, session>>

U29Read ==
    /\ pc = "written"
    /\ ret' = readU29(writer)
    /\ pc' = "read"
    /\ UNCHANGED <<arg, writer, session>>

U29Next == U29Write \/ U29Read

SpecU29 == U29Init /\ [][U29Next]_vars

U29MinLen(v) == IF v < 128 THEN 1 ELSE IF v < 16384 THEN 2
                ELSE IF v < 2097152 THEN 3 ELSE 4

\* C2: every v in 0..0x1fffffff is written in the minimal length and read
\* back as v with nothing left over; v >= 0x20000000 is a range error.
C2_U29RoundTrip ==
    /\ pc = "written" => arg < 536870912 /\ Len(writer) = U29MinLen(arg)
    /\ pc = "werr" => arg >= 536870912
    /\ pc = "read" => ret.err = "" /\ ret.val = arg /\ ret.rest = <<>>

(***************************************************************************)
(* Specification SpecInt: Encode of a signed integer on a fresh Encoder,   *)
(* then Decode of the output into an int64 on a fresh Decoder.             *)
(***************************************************************************)
IntBoundaries == {-2147483647, -2147483646, -268435456, -268435455, -1, 0, 1,
                  268435455, 268435456, 536870911, 536870912, 2147483647}

IntInputs == IntBoundaries \cup
             {Pow2(k) : k \in 0..MaxBit} \cup {0 - Pow2(k) : k \in 0..MaxBit}

IntInit ==
    /\ arg \in IntInputs
    /\ pc = "in"
    /\ ret = D("", DInit, Nil)
    /\ writer = <<>>
    /\ Idle

IntEncode ==
    /\ pc = "in"
    /\ LET w == encodeInt(<<>>, arg) IN
       /\ writer' = w.bytes
       /\ pc' = IF w.err = "" THEN "written" ELSE "werr"
    /\ UNCHANGED <<arg, ret, session>>

\* Decode(&x) with x an int64
IntDecode ==
    /\ pc = "written"
    /\ ret' = decode([DInit EXCEPT !.in = writer],
                     Dest(TPtr(TInt), VPtr(VInt(0)), FALSE), -1)
    /\ pc' = "read"
    /\ UNCHANGED <<arg, writer, session>>

IntNext == IntEncode \/ IntDecode

SpecInt == IntInit /\ [][IntNext]_vars

InIntegerRange(v) == -268435455 <= v /\ v <= 268435455

\* C3: a signed integer in [-0x0fffffff, 0x0fffffff] is written as Integer
\* marker + U29 (negatives biased by 0x20000000); outside it is never written
\* with the Integer marker but as a Double or a decimal String; decoding into
\* an int64 gives the integer back.
C3_IntegerForm ==
    /\ pc # "in" /\ InIntegerRange(arg) =>
          /\ pc # "werr"
          /\ writer = <<INTEGER_MARKER>> \o
                writeU29(Uint32(IF arg >= 0 THEN arg ELSE arg + 536870912)).bytes
    /\ pc # "in" /\ ~InIntegerRange(arg) =>
          /\ pc # "werr"
          /\ \/ writer = <<DOUBLE_MARKER>> \o Float64OfInt(arg)
             \/ writer = <<STRING_MARKER>> \o writeString(<<>>, FormatInt(arg)).bytes
    /\ pc = "read" => ret.st = "ok" /\ ret.val = VPtr(VInt(arg))

(***************************************************************************)
(* Specification Spec: one Encoder and one Decoder joined by a byte        *)
(* stream.  Encode runs the encode recursion one invocation per step; the  *)
(* bytes of a call reach the Decoder's reader when the call returns.       *)
(* The reader blocks while it is empty, so Decode waits for input.         *)
(***************************************************************************)
MaxCalls == 2

Perms(S) == {q \in [1..Cardinality(S) -> S] : \A i, j \in DOMAIN q : q[i] = q[j] => i = j}

\* the orders in which v.MapKeys() may list the keys of the map a frame encodes
Orders(f) ==
    LET v == IF f.op = "encode" /\ f.v.k = "interface" THEN f.v.v
             ELSE IF f.op = "encode" THEN f.v ELSE EInvalid
    IN IF v.k = "map" THEN Perms(DOMAIN Mem[v.id].m) ELSE {<<>>}

NoRet == [st |-> "", val |-> Nil, dest |-> Dest(TAny, Nil, TRUE), first |-> 0,
          oor |-> FALSE]

Init ==
    /\ arg = EInvalid
    /\ pc = "session"
    /\ ret = NoRet
    /\ writer = <<>>
    /\ enc \in {[sc |-> <<>>, oc |-> <<>>, reservStruct |-> b] : b \in BOOLEAN}
    /\ estack = <<>>
    /\ estate = "idle"
    /\ elog = <<>>
    /\ dec = DInit
    /\ dstate = "idle"
    /\ ncalls = 0
    /\ lastOp = "new"
    /\ paired = TRUE

\* run the invocation on top of stack; w0 is what the call wrote before it
Advance(stack, w0) ==
    \E ord \in Orders(Head(stack)), fresh \in FreshAddrs :
      \E r \in {RunFrame(enc, Head(stack), ord, fresh)} :
        LET stk == IF r.st = "ok" THEN r.push \o Tail(stack) ELSE <<>>
        IN /\ enc' = [enc EXCEPT !.sc = r.sc, !.oc = r.oc]
           /\ writer' = w0 \o r.bytes
           /\ estack' = stk
           /\ estate' = IF r.st # "ok" THEN r.st
                        ELSE IF stk = <<>> THEN "ok" ELSE "busy"
           /\ elog' = elog \o r.ev
           /\ paired' = (paired /\ r.st = "ok")
           /\ dec' = IF stk = <<>> THEN [dec EXCEPT !.in = @ \o w0 \o r.bytes]
                     ELSE dec

\* Encoder.Encode: the call and the first invocation of encode
Encode(v) ==
    /\ estate \notin {"busy", "panic"}
    /\ ncalls < MaxCalls
    /\ arg' = v
    /\ ncalls' = ncalls + 1
    /\ Advance(<<FEncode(v, -1)>>, <<>>)
    /\ lastOp' = "Encode"
    /\ UNCHANGED <<pc, ret, dstate>>

\* the next invocation of the running Encode call
EncodeStep ==
    /\ estate = "busy"
    /\ Advance(estack, writer)
    /\ lastOp' = "Encode"
    /\ UNCHANGED <<arg, pc, ret, dstate, ncalls>>

\* Encoder.Reset
EncReset ==
    /\ estate \notin {"busy", "panic"}
    /\ enc' = [enc EXCEPT !.sc = <<>>, !.oc = <<>>]
    /\ elog' = <<>>
    /\ estate' = "idle"
    /\ lastOp' = "EncReset"
    /\ paired' = (dec.sc = <<>> /\ dec.oc = <<>> /\ dec.log = <<>> /\ dec.in = <<>>
                  /\ dstate # "panic")
    /\ ncalls < MaxCalls
    /\ ncalls' = ncalls + 1
    /\ UNCHANGED <<arg, pc, ret, writer, estack, dec, dstate>>

\* the destination of a Decode call on a fresh variable x of type ty:
\* Decode(&x) hands decode the pointer (form "ptr", not addressable),
\* DecodeValue(reflect.ValueOf(&x).Elem()) the variable itself (form "var")
PrepDest(ds, ty, form) ==
    LET alloc == ty.k = "struct"
        ds1 == IF alloc THEN [ds EXCEPT !.objs = Append(@, NewStruct)] ELSE ds
        cur == IF alloc THEN VObj(Len(ds.objs)) ELSE Zero(ty)
    IN [ds |-> ds1,
        dest |-> IF form = "ptr" THEN Dest(TPtr(ty), VPtr(cur), FALSE)
                 ELSE Dest(ty, cur, TRUE)]

\* Decoder.Decode / Decoder.DecodeValue into a fresh variable of type ty
Decode(ty, form) ==
    /\ estate # "busy"
    /\ dstate # "panic"
    /\ dec.in # <<>>
    /\ \E p \in {PrepDest(dec, ty, form)} : \E r \in {decode(p.ds, p.dest, -1)} :
          /\ dec' = r.ds
          /\ dstate' = r.st
          /\ ret' = [st |-> r.st, val |-> r.val, dest |-> p.dest,
                     first |-> Head(dec.in),
                     oor |-> Len(r.ds.log) > Len(dec.log)
                             /\ r.ds.log[Len(r.ds.log)][1] = "oor"]
    /\ lastOp' = "Decode"
    /\ paired' = (paired /\ dstate' # "err")
    /\ UNCHANGED <<arg, pc, writer, enc, estack, estate, elog, ncalls>>

\* Decoder.Reset
DecReset ==
    /\ dstate # "panic"
    /\ dec' = [dec EXCEPT !.sc = <<>>, !.oc = <<>>, !.log = <<>>]
    /\ dstate' = "idle"
    /\ lastOp' = "DecReset"
    /\ paired' = (enc.sc = <<>> /\ enc.oc = <<>> /\ elog = <<>> /\ dec.in = <<>>
                  /\ estate # "panic")
    /\ ncalls < MaxCalls
    /\ ncalls' = ncalls + 1
    /\ UNCHANGED <<arg, pc, ret, writer, enc, estack, estate, elog>>

Next ==
    \/ \E v \in Roots : Encode(v)
    \/ EncodeStep
    \/ EncReset
    \/ Decode(TAny, "ptr")
    \/ DecReset

Spec == Init /\ [][Next]_vars

\* the running Encode call returns: encode recurses synchronously
SpecFair == Spec /\ WF_vars(EncodeStep)

(***************************************************************************)
(* Claims checked on Spec / SpecFair.                                      *)
(***************************************************************************)
IsLit(ev) == ev[1] = "lit"
IsRef(ev) == ev[1] = "ref"

\* C1: every back-reference the Encoder writes for the composite it holds at
\* object-cache index i is resolved by the paired Decoder to its own entry i.
C1_BackRefResolves ==
    paired => \A k \in 1..Len(dec.log) :
                 k <= Len(elog) /\ IsRef(elog[k]) => dec.log[k] = <<"ref", elog[k][3]>>

\* C7: Encode of a nil value, at top level or as a nil dynamic element of a
\* sequence, returns no error and writes the one-byte Null marker for it.
C7_NilWritesNull ==
    lastOp = "Encode" /\ estate # "busy" =>
        /\ arg = EInvalid => estate = "ok" /\ writer = <<NULL_MARKER>>
        /\ arg = ESlice("NE") /\ elog[Len(elog)] = <<"lit", "NE", 0, -1>> =>
              estate = "ok" /\ writer = <<ARRAY_MARKER, 3, 1, NULL_MARKER>>

\* C10: a back-reference is written for a composite only if that very
\* composite was registered earlier at the index referred to.
C10_RefOnlyToSelf ==
    \A k \in 1..Len(elog) :
        IsRef(elog[k]) =>
            \E j \in 1..(k - 1) : /\ IsLit(elog[j])
                                  /\ elog[j][2] = elog[k][2]
                                  /\ elog[j][3] = elog[k][3]

\* C6 (safety part): a composite is in the object cache while its children
\* are processed, on both sides, and no composite is written out as a
\* literal twice in one session.
C6_RegisteredBeforeChildren ==
    /\ \A i \in 1..Len(estack) :
          estack[i].op = "encode" /\ estack[i].par >= 0 =>
              \E a \in DOMAIN enc.oc : enc.oc[a] = estack[i].par
    /\ \A k \in 1..Len(dec.log) : IsLit(dec.log[k]) => dec.log[k][2] > dec.log[k][3]
    /\ \A j, k \in 1..Len(elog) :
          j < k /\ IsLit(elog[j]) /\ elog[k][2] = elog[j][2] => IsRef(elog[k])

\* C6: with that, every Encode call returns, also for a sequence or mapping
\* that contains itself.
C6_EncodeTerminates ==
    /\ []C6_RegisteredBeforeChildren
    /\ (estate = "busy") ~> (estate # "busy")

\* the self-containing slice and map were encoded, each as one literal and
\* one back-reference, and the decoder registered the slice before it met
\* the reference inside it
C6_Witness ==
    /\ estate = "ok" /\ dstate = "ok" /\ ncalls = 2
    /\ elog = <<<<"lit", "S", 0, -1>>, <<"ref", "S", 0>>,
                <<"lit", "M", 1, -1>>, <<"ref", "M", 1>>>>
    /\ Len(dec.log) >= 2

Dense(c) == {c[k] : k \in DOMAIN c} = 0..(CacheLen(c) - 1)

C9_CachesWellFormed ==
    /\ Dense(enc.sc) /\ Dense(enc.oc)
    /\ <<>> \notin DOMAIN enc.sc
    /\ \A i \in 1..Len(dec.sc) : dec.sc[i] # <<>>

Extends(c1, c2) == \A k \in DOMAIN c1 : k \in DOMAIN c2 /\ c2[k] = c1[k]

C9_Step ==
    /\ lastOp' # "EncReset" => Extends(enc.sc, enc.sc') /\ Extends(enc.oc, enc.oc')
    /\ lastOp' # "DecReset" => Extends(dec.sc, dec.sc') /\ Extends(dec.oc, dec.oc')

\* C9: only Reset empties a cache; otherwise entries keep their index, new
\* entries get the next index, the empty string is never cached, and this
\* holds across calls that end in an error.
C9_CachesOnlyGrow == []C9_CachesWellFormed /\ [][C9_Step]_vars

\* an Encode and a Decode call both ended in an error and left entries in
\* all four caches
C9_Witness ==
    /\ estate = "err" /\ dstate = "err"
    /\ CacheLen(enc.sc) > 0 /\ CacheLen(enc.oc) > 0
    /\ Len(dec.sc) > 0 /\ Len(dec.oc) > 0

(***************************************************************************)
(* Specification SpecDec: a Decoder fed by a peer that writes what it      *)
(* likes, decoding into destinations of every kind.                        *)
(***************************************************************************)
Wires == {<<NULL_MARKER>>,
          <<TRUE_MARKER>>,
          <<INTEGER_MARKER, 5>>,
          <<STRING_MARKER, 3, 97>>,               \* "a"
          <<STRING_MARKER, 0>>,                   \* string reference 0
          <<STRING_MARKER, 2>>,                   \* string reference 1
          <<STRING_MARKER, 5, 97>>,               \* cut short
          <<ARRAY_MARKER, 1, 1>>,                 \* []
          <<ARRAY_MARKER, 3, 1, NULL_MARKER>>,    \* [null]
          <<ARRAY_MARKER, 0>>,                    \* object reference 0
          <<ARRAY_MARKER, 2>>,                    \* object reference 1
          <<OBJECT_MARKER, 11, 1, 1>>,            \* {}
          <<OBJECT_MARKER, 11, 1, 3, 97, NULL_MARKER, 1>>,   \* {a: null}
          <<OBJECT_MARKER, 2>>,                   \* object reference 1
          <<7>>}                                  \* a marker not supported

DestTypes == {TAny, TBool, TInt, TUint, TFloat, TString, TSlice, TMap, TStruct,
              TPtr(TInt)}

Dests == (DestTypes \X {"var"}) \cup ({TAny, TInt} \X {"ptr"})

DecInit ==
    /\ arg = <<>>
    /\ pc = "decoder"
    /\ ret = NoRet
    /\ writer = <<>>
    /\ Idle

\* the peer writes w to the stream
Feed(w) ==
    /\ dstate # "panic"
    /\ dec.in = <<>>
    /\ ncalls < MaxCalls
    /\ ncalls' = ncalls + 1
    /\ dec' = [dec EXCEPT !.in = w]
    /\ arg' = w
    /\ lastOp' = "Feed"
    /\ paired' = FALSE
    /\ UNCHANGED <<pc, ret, writer, enc, estack, estate, elog, dstate>>

DecNext ==
    \/ \E w \in Wires : Feed(w)
    \/ \E x \in Dests : Decode(x[1], x[2])
    \/ DecReset

SpecDec == DecInit /\ [][DecNext]_vars

\* C5: a back-reference to an index the cache does not hold makes the
\* Decode call return an error.
C5_BadRefIsError ==
    lastOp = "Decode" /\ ret.oor => ret.st = "err"

\* C8: on the Null marker a nilable destination is cleared and Decode
\* succeeds; any other destination gets a type-mismatch error and is left
\* as it was.
C8_NullByDestination ==
    lastOp = "Decode" /\ ret.first = NULL_MARKER /\ ret.dest.addr =>
        IF Nilable(ret.dest.type.k) THEN ret.st = "ok" /\ ret.val = Nil
        ELSE ret.st = "err" /\ ret.val = ret.dest.cur

(***************************************************************************)
(* Specification SpecStr: strings encoded one per Encode call and decoded  *)
(* one per Decode call.  New strings arrive in a fixed order; any string   *)
(* already cached may be encoded again.                                    *)
(***************************************************************************)
MaxStr == 66

NewString(n) == IF n = 0 THEN <<97, 98, 99>> ELSE <<n>>

StrInit ==
    /\ arg = EString(<<>>)
    /\ pc = "new"
    /\ ret = NoRet
    /\ writer = <<>>
    /\ Idle

\* Encode(s) for a string s; pc tells whether s was already in the cache
EncodeString(str) ==
    /\ dec.in = <<>>
    /\ estate \notin {"busy", "panic"}
    /\ arg' = EString(str)
    /\ pc' = IF str \in DOMAIN enc.sc THEN "again" ELSE "first"
    /\ Advance(<<FEncode(EString(str), -1)>>, <<>>)
    /\ lastOp' = "Encode"
    /\ UNCHANGED <<ret, dstate, ncalls>>

StrNext ==
    \/ \E str \in DOMAIN enc.sc \cup {<<>>} : EncodeString(str)
    \/ CacheLen(enc.sc) < MaxStr /\ EncodeString(NewString(CacheLen(enc.sc)))
    \/ Decode(TString, "ptr")

SpecStr == StrInit /\ [][StrNext]_vars

\* the bytes of the literal form of a String value
StringLiteral(str) == encodeString(<<>>, str).bytes

====
